---- MODULE Spec2Model ----
(***************************************************************************)
(* State-machine model of the v210 encoder (libavcodec/v210enc.c):         *)
(* encode_init, ff_v210enc_init, the two C bulk packers and encode_frame,   *)
(* row by row, with the planes and the packet as flat byte/sample arrays   *)
(* addressed by integer offsets, as the C code addresses them by pointer.  *)
(***************************************************************************)
EXTENDS Integers, Sequences, FiniteSets, TLC

VARIABLES
    avctx,        \* AVCodecContext: width, height, pix_fmt
    s,            \* V210EncContext: pack_line_8/10, sample_factor_8/10
    pic,          \* the input AVFrame of the running/last encode_frame call
    pkt,          \* the output AVPacket of the running/last encode_frame call
    got_packet,   \* *got_packet of the running/last call
    ret,          \* return value of the last returned call (0 before any)
    pc,           \* position: "config", "init_failed", "ready", "rows"
    h,            \* encode_frame local: row counter
    dst,          \* encode_frame local: offset of dst from pkt->data
    y, u, v,      \* encode_frame locals: offsets (in samples) into the planes
    u_even, v_even,
    stride, line_padding,
    trace,        \* per output row: what the iteration did (observation only)
    other,        \* a second encode_frame call on the same context, while it
                  \* is not the one taking steps: its frame, packet and locals
    dl            \* the DeckLink output device: struct decklink_ctx, the
                  \* writer's position and the frames the card holds

vars == << avctx, s, pic, pkt, got_packet, ret, pc, h, dst, y, u, v,
           u_even, v_even, stride, line_padding, trace, other, dl >>

----------------------------------------------------------------------------
(* Bounds of the model *)

MaxSmallWidth == 12
MaxHeight == 4
MaxSeed == 1
MaxPad == 1
MaxTallHeight == 8

(* widths tried: all of 1..MaxSmallWidth and the boundary widths around    *)
(* the bulk group sizes 12, 24, 48                                         *)
PixFmts == {"YUV422P10", "YUV422P", "YUV420P"}
BoundaryWidths == {18, 30, 32, 48, 50, 52}
Widths == (1 .. MaxSmallWidth) \cup BoundaryWidths
Heights == 1 .. MaxHeight
(* narrow frames of MaxTallHeight rows: several 4-row groups *)
TallWidths == {4, 6}
Configs ==
    [ width : Widths, height : Heights, pix_fmt : PixFmts ]
    \cup [ width : TallWidths, height : {MaxTallHeight}, pix_fmt : PixFmts ]


(* sample values the planes are filled from: legal values, the clip        *)
(* boundaries on both sides, and 16-bit values above 1023                  *)
Pool10 == << 0, 3, 4, 5, 64, 100, 512, 940, 1018, 1019, 1020, 1023, 4095,
             32768, 65535, 700, 1 >>
Pool8  == << 0, 1, 2, 16, 77, 100, 128, 200, 235, 253, 254, 255, 3, 129,
             255, 0, 17 >>

(* sample values inside the clip ranges only: nothing for CLIP or CLIP8 to  *)
(* change                                                                  *)
LegalPool10 == << 4, 5, 64, 100, 512, 940, 1018, 1019, 700, 16, 235, 300,
                  1000, 8, 600, 77, 999 >>
LegalPool8  == << 1, 2, 16, 77, 100, 128, 200, 235, 253, 254, 3, 129, 17,
                  64, 180, 90, 33 >>

(* what a read outside a plane may return *)
Garbage == {0, 1023}

----------------------------------------------------------------------------
(* Arithmetic helpers *)

(* libavutil/common.h av_clip, as used by CLIP and CLIP8 *)
av_clip(a, amin, amax) ==
    IF a < amin THEN amin ELSE IF a > amax THEN amax ELSE a

(* clipping to 11 bits *)
CLIP_11bit(x) == av_clip(x, 4, 2047)
CLIP(x) == av_clip(x, 4, 1019)
(* clipping to the full 8-bit range *)
CLIP8_full(x) == av_clip(x, 0, 255)
CLIP8(x) == av_clip(x, 1, 254)

(* x << n; the operands are clipped samples of at most 10 bits and n is at  *)
(* most 22, so no bit leaves the 32-bit word                               *)
Shl(x, n) == x * (2 ^ n)

(* a | b, bit by bit *)
RECURSIVE BitOr1(_, _)
BitOr1(a, b) ==
    IF a = 0 THEN b
    ELSE IF b = 0 THEN a
    ELSE (IF a % 2 = 1 \/ b % 2 = 1 THEN 1 ELSE 0)
         + 2 * BitOr1(a \div 2, b \div 2)

(* a | b, ten bits at a time *)
RECURSIVE BitOr(_, _)
BitOr(a, b) ==
    IF a = 0 THEN b
    ELSE IF b = 0 THEN a
    ELSE BitOr1(a % 1024, b % 1024)
         + 1024 * BitOr(a \div 1024, b \div 1024)

(* AV_WL32: the four bytes of a 32-bit value, least significant first *)
AV_WL32(val) ==
    << val % 256, (val \div 256) % 256,
       (val \div 65536) % 256, (val \div 16777216) % 256 >>

(* memset(dst, 0, n) *)
Zeros(n) == [i \in 1 .. n |-> 0]

----------------------------------------------------------------------------
(* The cursor of one row: the pointers, the output buffer, val, w and i.   *)
(* m.p[a] is the offset of pointer a ("y", "u", "v") into its plane,       *)
(* m.dst the offset of dst into m.buf, m.g what a read outside the plane   *)
(* returns.                                                                *)

PlaneIx(a) == IF a = "y" THEN 1 ELSE IF a = "u" THEN 2 ELSE 3

(* *a *)
Rd(m, a) ==
    LET pl == pic.data[PlaneIx(a)]
        ix == m.p[a]
    IN  IF ix >= 0 /\ ix < Len(pl) THEN pl[ix + 1] ELSE m.g

(* a++ *)
Inc(m, a) == [m EXCEPT !.p[a] = @ + 1]

(* bytes stored at offset off of buf; a store outside buf does not land in it *)
WriteAt(buf, off, bytes) ==
    IF off < 0 \/ off + Len(bytes) > Len(buf) THEN buf
    ELSE SubSeq(buf, 1, off) \o bytes
         \o SubSeq(buf, off + Len(bytes) + 1, Len(buf))

(* AV_WL32(dst, val); dst += 4 *)
Store(m, val) ==
    [m EXCEPT !.buf = WriteAt(m.buf, m.dst, AV_WL32(val)), !.dst = @ + 4]

(* WRITE_PIXELS(a, b, c) *)
(* the second and third sample of a word in each other's field *)
WRITE_PIXELS_swapped(m, a, b, c) ==
    LET va == CLIP(Rd(m, a))
        m1 == Inc(m, a)
        vb == CLIP(Rd(m1, b))
        m2 == Inc(m1, b)
        vc == CLIP(Rd(m2, c))
        m3 == Inc(m2, c)
        val == BitOr(va, BitOr(Shl(vc, 10), Shl(vb, 20)))
    IN  Store([m3 EXCEPT !.val = val], val)
WRITE_PIXELS(m, a, b, c) ==
    LET va == CLIP(Rd(m, a))
        m1 == Inc(m, a)
        vb == CLIP(Rd(m1, b))
        m2 == Inc(m1, b)
        vc == CLIP(Rd(m2, c))
        m3 == Inc(m2, c)
        val == BitOr(va, BitOr(Shl(vb, 10), Shl(vc, 20)))
    IN  Store([m3 EXCEPT !.val = val], val)

(* WRITE_PIXELS8(a, b, c) *)
(* the first sample of a word stored without its scaling to 10 bits *)
WRITE_PIXELS8_unscaled(m, a, b, c) ==
    LET va == CLIP8(Rd(m, a))
        m1 == Inc(m, a)
        vb == Shl(CLIP8(Rd(m1, b)), 12)
        m2 == Inc(m1, b)
        vc == Shl(CLIP8(Rd(m2, c)), 22)
        m3 == Inc(m2, c)
        val == BitOr(va, BitOr(vb, vc))
    IN  Store([m3 EXCEPT !.val = val], val)
WRITE_PIXELS8(m, a, b, c) ==
    LET va == Shl(CLIP8(Rd(m, a)), 2)
        m1 == Inc(m, a)
        vb == Shl(CLIP8(Rd(m1, b)), 12)
        m2 == Inc(m1, b)
        vc == Shl(CLIP8(Rd(m2, c)), 22)
        m3 == Inc(m2, c)
        val == BitOr(va, BitOr(vb, vc))
    IN  Store([m3 EXCEPT !.val = val], val)

(* the group with the chroma of its first word taken in the order V, Y, U *)
Group10_vyu(m) ==
    WRITE_PIXELS(WRITE_PIXELS(WRITE_PIXELS(WRITE_PIXELS(
        m, "v", "y", "u"), "y", "u", "y"), "v", "y", "u"), "y", "v", "y")

(* the four words of one group of 6 luma samples *)
Group10(m) ==
    WRITE_PIXELS(WRITE_PIXELS(WRITE_PIXELS(WRITE_PIXELS(
        m, "u", "y", "v"), "y", "u", "y"), "v", "y", "u"), "y", "v", "y")

(* the four words of one group of 6 luma samples, 8-bit: the body of the   *)
(* scalar tail loop                                                        *)
Group8(m) ==
    WRITE_PIXELS8(WRITE_PIXELS8(WRITE_PIXELS8(WRITE_PIXELS8(
        m, "u", "y", "v"), "y", "u", "y"), "v", "y", "u"), "y", "v", "y")

(* v210_planar_pack_10_c: for (i = 0; i < width - 5; i += 6); m.i is the   *)
(* routine's local i                                                       *)
RECURSIVE pack_10_loop(_, _)
pack_10_loop(m, width) ==
    IF m.i < width - 5
    THEN pack_10_loop([Group10(m) EXCEPT !.i = @ + 6], width)
    ELSE m

v210_planar_pack_10_c(m, width) == pack_10_loop([m EXCEPT !.i = 0], width)

(* the unrolled body with the chroma of its sixth word taken from v *)
Unrolled8_slip(m) ==
    WRITE_PIXELS8(WRITE_PIXELS8(WRITE_PIXELS8(WRITE_PIXELS8(
    WRITE_PIXELS8(WRITE_PIXELS8(WRITE_PIXELS8(WRITE_PIXELS8(
        m, "u", "y", "v"), "y", "u", "y"), "v", "y", "u"), "y", "v", "y"),
           "u", "y", "v"), "y", "v", "y"), "v", "y", "u"), "y", "v", "y")

(* the unrolled loop body of v210_planar_pack_8_c: eight words from 12     *)
(* luma samples                                                            *)
Unrolled8(m) ==
    WRITE_PIXELS8(WRITE_PIXELS8(WRITE_PIXELS8(WRITE_PIXELS8(
    WRITE_PIXELS8(WRITE_PIXELS8(WRITE_PIXELS8(WRITE_PIXELS8(
        m, "u", "y", "v"), "y", "u", "y"), "v", "y", "u"), "y", "v", "y"),
           "u", "y", "v"), "y", "u", "y"), "v", "y", "u"), "y", "v", "y")

(* v210_planar_pack_8_c: for (i = 0; i < width - 11; i += 12), 8 words *)
RECURSIVE pack_8_loop(_, _)
pack_8_loop(m, width) ==
    IF m.i < width - 11
    THEN pack_8_loop([Unrolled8(m) EXCEPT !.i = @ + 12], width)
    ELSE m

v210_planar_pack_8_c(m, width) == pack_8_loop([m EXCEPT !.i = 0], width)

----------------------------------------------------------------------------
(* The input frame *)

(* samples per row of the luma and chroma planes: the logical width plus   *)
(* the stride overhead of the source frame                                 *)
LumaStride(width, pad) == width + 2 * pad
ChromaStride(width, pad) == (width \div 2) + pad
ChromaRows(fmt, height) ==
    IF fmt = "YUV420P" THEN (height + 1) \div 2 ELSE height

MkPlane(pool, id, n, seed) ==
    [i \in 1 .. n |-> pool[((i - 1 + 5 * id + 7 * seed) % Len(pool)) + 1]]

(* bytes per sample of the planes of a format *)
SampleBytes(fmt) == IF fmt = "YUV422P10" THEN 2 ELSE 1

SideTypes == << "A53_CC", "AFD", "BARDATA", "PIPELINE_STATS",
                "SEI_UNREGISTERED" >>

(* side data an input frame may carry: per type, its bytes (<<>>: the      *)
(* type is absent or has size 0)                                           *)
SideDataOptions ==
    { [t \in 1 .. 5 |-> << >>],
      [t \in 1 .. 5 |-> IF t = 2 THEN << >> ELSE [i \in 1 .. t |-> 16 * t + i]] }

(* interlaced_frame is read for 4:2:0 frames only *)
InterlacedOptions(fmt) == IF fmt = "YUV420P" THEN {0, 1} ELSE {0}

MkFrame(fmt, width, height, il, pad, seed, sd) ==
    LET pool == IF fmt = "YUV422P10" THEN Pool10 ELSE Pool8
        ls == LumaStride(width, pad)
        cs == ChromaStride(width, pad)
        cr == ChromaRows(fmt, height)
    IN  [ format |-> fmt,
          interlaced_frame |-> il,
          linesize |-> << ls * SampleBytes(fmt), cs * SampleBytes(fmt),
                          cs * SampleBytes(fmt) >>,
          data |-> << MkPlane(pool, 1, ls * height, seed),
                      MkPlane(pool, 2, cs * cr, seed),
                      MkPlane(pool, 3, cs * cr, seed) >>,
          side_data |-> sd ]

(* a frame without row padding whose planes are filled from the legal pools *)
LegalFrame(fmt, width, height, il) ==
    LET pool == IF fmt = "YUV422P10" THEN LegalPool10 ELSE LegalPool8
        ls == LumaStride(width, 0)
        cs == ChromaStride(width, 0)
        cr == ChromaRows(fmt, height)
    IN  [ format |-> fmt,
          interlaced_frame |-> il,
          linesize |-> << ls * SampleBytes(fmt), cs * SampleBytes(fmt),
                          cs * SampleBytes(fmt) >>,
          data |-> << MkPlane(pool, 1, ls * height, 0),
                      MkPlane(pool, 2, cs * cr, 0),
                      MkPlane(pool, 3, cs * cr, 0) >>,
          side_data |-> [t \in 1 .. 5 |-> << >>] ]

NoFrame ==
    [ format |-> "NONE", interlaced_frame |-> 0, linesize |-> << 0, 0, 0 >>,
      data |-> << << >>, << >>, << >> >>,
      side_data |-> [t \in 1 .. 5 |-> << >>] ]

NoPacket == [ size |-> 0, data |-> << >>, flags |-> 0, side_data |-> << >> ]

----------------------------------------------------------------------------
(* Initial state: a configured codec context, nothing initialised yet, and *)
(* the frame its caller will submit (none for a width encode_init rejects) *)

(* one line of six 10-bit pixels, every sample inside the clip range *)
ExampleFrame ==
    [ format |-> "YUV422P10",
      interlaced_frame |-> 0,
      linesize |-> << 12, 6, 6 >>,
      data |-> << << 100, 200, 300, 400, 500, 600 >>,
                  << 10, 20, 30 >>,
                  << 40, 50, 60 >> >>,
      side_data |-> [t \in 1 .. 5 |-> << >>] ]

Frames(fmt, width, height) ==
    IF width % 2 = 1 THEN { NoFrame }
    ELSE { MkFrame(fmt, width, height, il, pad, seed, sd) :
              il \in InterlacedOptions(fmt), pad \in 0 .. MaxPad,
              seed \in 0 .. MaxSeed, sd \in SideDataOptions }
         \cup { LegalFrame(fmt, width, height, il) :
                    il \in InterlacedOptions(fmt) }
         \cup IF fmt = "YUV422P10" /\ width = 6 /\ height = 1
              THEN { ExampleFrame } ELSE { }

(* the arguments and locals of a call that has not started, on frame f;   *)
(* mixed: the two calls have been inside their row loops at the same time  *)
ParkedCall(f) ==
    [ pic |-> f, pkt |-> NoPacket, got_packet |-> 0, ret |-> 0,
      pc |-> "ready", h |-> 0, dst |-> 0, y |-> 0, u |-> 0, v |-> 0,
      u_even |-> 0, v_even |-> 0, stride |-> 0, line_padding |-> 0,
      trace |-> << >>, mixed |-> FALSE ]

(* no second call *)
NoCall == ParkedCall(NoFrame)

(* no DeckLink output opened *)
NoDevice ==
    [ pc |-> "closed", bmd_width |-> 0, codec_id |-> "NONE",
      frames_preroll |-> 0, frames_buffer |-> 0,
      frames_buffer_available_spots |-> 0, scheduled |-> 0,
      den |-> 0, linesize0 |-> 0, wpc |-> "idle", ret |-> 0,
      playback_started |-> 0, row_bytes |-> 0 ]

Init ==
    /\ avctx \in Configs
    /\ s = [ pack_line_8 |-> "NULL", pack_line_10 |-> "NULL",
             sample_factor_8 |-> 0, sample_factor_10 |-> 0 ]
    /\ pic \in Frames(avctx.pix_fmt, avctx.width, avctx.height)
    /\ pkt = NoPacket
    /\ got_packet = 0
    /\ ret = 0
    /\ pc = "config"
    /\ h = 0 /\ dst = 0 /\ y = 0 /\ u = 0 /\ v = 0
    /\ u_even = 0 /\ v_even = 0
    /\ stride = 0 /\ line_padding = 0
    /\ trace = << >>
    /\ other = NoCall
    /\ dl = NoDevice

(* ff_v210enc_init_x86: may install accelerated packers, which consume     *)
(* two groups per invocation                                                *)
ff_v210enc_init_x86(sc, simd) ==
    IF simd
    THEN [ pack_line_8 |-> "v210_planar_pack_8_simd",
           pack_line_10 |-> "v210_planar_pack_10_simd",
           sample_factor_8 |-> 2, sample_factor_10 |-> 2 ]
    ELSE sc

(* ff_v210enc_init *)
ff_v210enc_init(simd) ==
    ff_v210enc_init_x86(
        [ pack_line_8 |-> "v210_planar_pack_8_c",
          pack_line_10 |-> "v210_planar_pack_10_c",
          sample_factor_8 |-> 1, sample_factor_10 |-> 1 ], simd)

(* s->pack_line_10(y, u, v, dst, w) and s->pack_line_8(y, u, v, dst, w):   *)
(* every installed routine packs as the C routine does. The callee works   *)
(* on copies of the pointers: only the bytes it stored are kept, and how   *)
(* far its copy of dst went is recorded in m.stored.                       *)
pack_line_10(m, w) ==
    LET r == v210_planar_pack_10_c(m, w)
    IN  [m EXCEPT !.buf = r.buf, !.stored = r.dst - m.dst]
pack_line_8(m, w) ==
    LET r == v210_planar_pack_8_c(m, w)
    IN  [m EXCEPT !.buf = r.buf, !.stored = r.dst - m.dst]

(* the packer selected before the width is tested *)
encode_init_late_check ==
    /\ pc = "config"
    /\ \E simd \in BOOLEAN : s' = ff_v210enc_init(simd)
    /\ IF avctx.width % 2 = 1
       THEN /\ ret' = -22
            /\ pc' = "init_failed"
       ELSE /\ ret' = 0
            /\ pc' = "ready"
    /\ UNCHANGED << other, dl >>
    /\ UNCHANGED << avctx, pic, pkt, got_packet, h, dst, y, u, v, u_even,
                    v_even, stride, line_padding, trace >>
encode_init ==
    /\ pc = "config"
    /\ IF avctx.width % 2 = 1
       THEN /\ ret' = -22
            /\ pc' = "init_failed"
            /\ s' = s
       ELSE /\ \E simd \in BOOLEAN : s' = ff_v210enc_init(simd)
            /\ ret' = 0
            /\ pc' = "ready"
    /\ UNCHANGED << other, dl >>
    /\ UNCHANGED << avctx, pic, pkt, got_packet, h, dst, y, u, v, u_even,
                    v_even, stride, line_padding, trace >>

----------------------------------------------------------------------------
(* encode_frame, entry: the sizes, the output packet, the plane pointers *)

(* rounding up with 48 instead of 47 *)
aligned_width_round48(width) == ((width + 48) \div 48) * 48
aligned_width(width) == ((width + 47) \div 48) * 48

(* the stride of the unaligned width *)
Stride_unaligned(width) == (width * 8) \div 3
Stride(width) == (aligned_width(width) * 8) \div 3
LinePadding(width) == Stride(width) - ((width * 8 + 11) \div 12) * 4

(* ff_alloc_packet2(avctx, pkt, size, size): a packet of size bytes whose  *)
(* content is not initialised (-1 marks a byte never stored to)            *)
ff_alloc_packet2(size) ==
    [ size |-> size, data |-> [i \in 1 .. size |-> -1], flags |-> 0,
      side_data |-> << >> ]

(* av_packet_new_side_data + memcpy: one more entry of the packet's list *)
(* the block allocated with the right size but never filled *)
av_packet_new_side_data_nocopy(p, type, bytes) ==
    [p EXCEPT !.side_data =
        Append(@, [type |-> type, size |-> Len(bytes),
                   data |-> [i \in 1 .. Len(bytes) |-> 0]])]
av_packet_new_side_data(p, type, bytes) ==
    [p EXCEPT !.side_data =
        Append(@, [type |-> type, size |-> Len(bytes), data |-> bytes])]

(* the entry of encode_frame installing the C packers again *)
encode_frame_begin_reinit ==
    /\ pc = "ready"
    /\ \E alloc_ok \in BOOLEAN, pts_ok \in BOOLEAN :
        /\ got_packet' = 0
        /\ IF ~alloc_ok
           THEN /\ ret' = -12
                /\ pkt' = NoPacket
                /\ pc' = "ready"
                /\ stride' = 0 /\ line_padding' = 0
           ELSE /\ stride' = Stride(avctx.width)
                /\ line_padding' = LinePadding(avctx.width)
                /\ LET p0 == ff_alloc_packet2(avctx.height * Stride(avctx.width))
                   IN  pkt' = IF pts_ok
                              THEN av_packet_new_side_data(p0, "ORIG_PTS",
                                                           << 0 >>)
                              ELSE p0
                /\ ret' = ret
                /\ pc' = "rows"
    /\ h' = 0 /\ dst' = 0 /\ y' = 0 /\ u' = 0 /\ v' = 0
    /\ u_even' = 0 /\ v_even' = 0
    /\ trace' = << >>
    /\ s' = ff_v210enc_init(FALSE)
    /\ UNCHANGED << other, dl >>
    /\ UNCHANGED << avctx, pic >>
encode_frame_begin ==
    /\ pc = "ready"
    /\ \E alloc_ok \in BOOLEAN, pts_ok \in BOOLEAN :
        /\ got_packet' = 0
        /\ IF ~alloc_ok
           THEN /\ ret' = -12
                /\ pkt' = NoPacket
                /\ pc' = "ready"
                /\ stride' = 0 /\ line_padding' = 0
           ELSE /\ stride' = Stride(avctx.width)
                /\ line_padding' = LinePadding(avctx.width)
                /\ LET p0 == ff_alloc_packet2(avctx.height * Stride(avctx.width))
                   IN  pkt' = IF pts_ok
                              THEN av_packet_new_side_data(p0, "ORIG_PTS",
                                                           << 0 >>)
                              ELSE p0
                /\ ret' = ret
                /\ pc' = "rows"
    /\ h' = 0 /\ dst' = 0 /\ y' = 0 /\ u' = 0 /\ v' = 0
    /\ u_even' = 0 /\ v_even' = 0
    /\ trace' = << >>
    /\ UNCHANGED << other, dl >>
    /\ UNCHANGED << avctx, s, pic >>

----------------------------------------------------------------------------
(* encode_frame, one iteration of the row loop *)

(* the tail loop stopping one group early: w < avctx->width - 6 *)
RECURSIVE tail_loop_10_early(_)
tail_loop_10_early(m) ==
    IF m.w < avctx.width - 6
    THEN tail_loop_10_early([Group10(m) EXCEPT !.w = @ + 6, !.tail = @ + 1])
    ELSE m

(* the scalar tail loop left out *)
tail_loop_10_skipped(m) == m

(* for (; w < avctx->width - 5; w += 6) { four WRITE_PIXELS } *)
RECURSIVE tail_loop_10(_)
tail_loop_10(m) ==
    IF m.w < avctx.width - 5
    THEN tail_loop_10([Group10(m) EXCEPT !.w = @ + 6, !.tail = @ + 1])
    ELSE m

RECURSIVE tail_loop_8(_)
tail_loop_8(m) ==
    IF m.w < avctx.width - 5
    THEN tail_loop_8([Group8(m) EXCEPT !.w = @ + 6, !.tail = @ + 1])
    ELSE m

(* the second word flushed early for a remainder of 4 instead of 2 *)
edge_10_flush4(m) ==
    LET a == IF m.w < avctx.width - 1
             THEN LET m1 == WRITE_PIXELS(m, "u", "y", "v")
                      m2 == [Inc(m1, "y") EXCEPT !.val = CLIP(Rd(m1, "y")),
                                                 !.edge1 = TRUE]
                  IN  IF m.w = avctx.width - 4 THEN Store(m2, m2.val) ELSE m2
             ELSE m
    IN  IF a.w < avctx.width - 3
        THEN LET val1 == BitOr(a.val,
                               BitOr(Shl(CLIP(Rd(a, "u")), 10),
                                     Shl(CLIP(Rd(Inc(a, "u"), "y")), 20)))
                 b == Store([Inc(Inc(a, "u"), "y") EXCEPT !.val = val1], val1)
                 val2 == BitOr(CLIP(Rd(b, "v")),
                               Shl(CLIP(Rd(Inc(b, "v"), "y")), 10))
                 c == Store([Inc(Inc(b, "v"), "y") EXCEPT !.val = val2], val2)
             IN  [c EXCEPT !.edge2 = TRUE]
        ELSE a

(* if (w < avctx->width - 1) { ... }  if (w < avctx->width - 3) { ... } *)
edge_10(m) ==
    LET a == IF m.w < avctx.width - 1
             THEN LET m1 == WRITE_PIXELS(m, "u", "y", "v")
                      m2 == [Inc(m1, "y") EXCEPT !.val = CLIP(Rd(m1, "y")),
                                                 !.edge1 = TRUE]
                  IN  IF m.w = avctx.width - 2 THEN Store(m2, m2.val) ELSE m2
             ELSE m
    IN  IF a.w < avctx.width - 3
        THEN LET val1 == BitOr(a.val,
                               BitOr(Shl(CLIP(Rd(a, "u")), 10),
                                     Shl(CLIP(Rd(Inc(a, "u"), "y")), 20)))
                 b == Store([Inc(Inc(a, "u"), "y") EXCEPT !.val = val1], val1)
                 val2 == BitOr(CLIP(Rd(b, "v")),
                               Shl(CLIP(Rd(Inc(b, "v"), "y")), 10))
                 c == Store([Inc(Inc(b, "v"), "y") EXCEPT !.val = val2], val2)
             IN  [c EXCEPT !.edge2 = TRUE]
        ELSE a

(* the word holding the last luma sample of a remainder of 2 never stored *)
edge_8_noflush(m) ==
    LET a == IF m.w < avctx.width - 1
             THEN LET m1 == WRITE_PIXELS8(m, "u", "y", "v")
                  IN  [Inc(m1, "y") EXCEPT
                          !.val = Shl(CLIP8(Rd(m1, "y")), 2),
                          !.edge1 = TRUE]
             ELSE m
    IN  IF a.w < avctx.width - 3
        THEN LET val1 == BitOr(a.val,
                               BitOr(Shl(CLIP8(Rd(a, "u")), 12),
                                     Shl(CLIP8(Rd(Inc(a, "u"), "y")), 22)))
                 b == Store([Inc(Inc(a, "u"), "y") EXCEPT !.val = val1], val1)
                 val2 == BitOr(Shl(CLIP8(Rd(b, "v")), 2),
                               Shl(CLIP8(Rd(Inc(b, "v"), "y")), 12))
                 c == Store([Inc(Inc(b, "v"), "y") EXCEPT !.val = val2], val2)
             IN  [c EXCEPT !.edge2 = TRUE]
        ELSE a
edge_8(m) ==
    LET a == IF m.w < avctx.width - 1
             THEN LET m1 == WRITE_PIXELS8(m, "u", "y", "v")
                      m2 == [Inc(m1, "y") EXCEPT
                                !.val = Shl(CLIP8(Rd(m1, "y")), 2),
                                !.edge1 = TRUE]
                  IN  IF m.w = avctx.width - 2 THEN Store(m2, m2.val) ELSE m2
             ELSE m
    IN  IF a.w < avctx.width - 3
        THEN LET val1 == BitOr(a.val,
                               BitOr(Shl(CLIP8(Rd(a, "u")), 12),
                                     Shl(CLIP8(Rd(Inc(a, "u"), "y")), 22)))
                 b == Store([Inc(Inc(a, "u"), "y") EXCEPT !.val = val1], val1)
                 val2 == BitOr(Shl(CLIP8(Rd(b, "v")), 2),
                               Shl(CLIP8(Rd(Inc(b, "v"), "y")), 12))
                 c == Store([Inc(Inc(b, "v"), "y") EXCEPT !.val = val2], val2)
             IN  [c EXCEPT !.edge2 = TRUE]
        ELSE a

(* the padding skipped over without the memset *)
pad_line_skip(m) == [m EXCEPT !.dst = @ + line_padding]

(* memset(dst, 0, line_padding); dst += line_padding *)
pad_line(m) ==
    [m EXCEPT !.buf = WriteAt(m.buf, m.dst, Zeros(line_padding)),
              !.dst = @ + line_padding]

(* the cursor at the top of an iteration, with chroma pointers cu, cv *)
Cursor(cu, cv, g) ==
    [ p |-> [y |-> y, u |-> cu, v |-> cv], dst |-> dst, buf |-> pkt.data,
      val |-> 0, w |-> 0, i |-> 0, g |-> g, bulk |-> 0, tail |-> 0,
      edge1 |-> FALSE, edge2 |-> FALSE, stored |-> 0, adv |-> 0 ]

(* const int sample_size, sample_w of the 10-bit and of the 8-bit branch *)
sample_size_10 == 6 * s.sample_factor_10
sample_w_10 == avctx.width \div sample_size_10
sample_size_8 == 12 * s.sample_factor_8
(* sample_w rounded so that a last full bulk group is left to the tail *)
sample_w_8_short == (avctx.width - 1) \div sample_size_8
sample_w_8 == avctx.width \div sample_size_8

(* dst += sample_w * 16 * s->sample_factor_10, with the step of the 8-bit   *)
(* branch                                                                  *)
bulk_advance_10_as8 == sample_w_10 * 32 * s.sample_factor_10
(* the bytes dst moves by after the bulk call: 16 (10-bit) and 32 (8-bit)  *)
(* per bulk group                                                          *)
bulk_advance_10 == sample_w_10 * 16 * s.sample_factor_10
(* the 8-bit branch moving dst by the 16 bytes per group of the 10-bit one *)
bulk_advance_8_as10 == sample_w_8 * 16 * s.sample_factor_8
bulk_advance_8 == sample_w_8 * 32 * s.sample_factor_8

(* the body of the 10-bit loop up to the padding *)
row_10(m0) ==
    LET sample_size == sample_size_10
        sample_w == sample_w_10
        w == sample_w * sample_size
        m1 == pack_line_10(m0, w)
        m2 == [m1 EXCEPT !.w = w, !.bulk = w,
                         !.p.y = @ + w,
                         !.p.u = @ + (w \div 2),
                         !.p.v = @ + (w \div 2),
                         !.dst = @ + bulk_advance_10,
                         !.adv = bulk_advance_10]
    IN  pad_line(edge_10(tail_loop_10(m2)))

(* the body of the 8-bit loop from the bulk call up to the padding *)
row_8(m0) ==
    LET sample_size == sample_size_8
        sample_w == sample_w_8
        w == sample_w * sample_size
        m1 == pack_line_8(m0, w)
        m2 == [m1 EXCEPT !.w = w, !.bulk = w,
                         !.p.y = @ + w,
                         !.p.u = @ + (w \div 2),
                         !.p.v = @ + (w \div 2),
                         !.dst = @ + bulk_advance_8,
                         !.adv = bulk_advance_8]
    IN  pad_line(edge_8(tail_loop_8(m2)))

(* what reads of the iteration outside the chroma planes may return: the   *)
(* row reads width/2 samples from cu and from cv                           *)
GarbageFor(cu, cv) ==
    IF \/ cu + (avctx.width \div 2) > Len(pic.data[2])
       \/ cv + (avctx.width \div 2) > Len(pic.data[3])
    THEN Garbage
    ELSE {0}

(* what the iteration is recorded to have done *)
RowTrace(m0, m) ==
    [ dst0 |-> m0.dst, dst1 |-> m.dst, u0 |-> m0.p.u, v0 |-> m0.p.v,
      y0 |-> m0.p.y, g |-> m0.g, bulk |-> m.bulk, tail |-> m.tail,
      edge1 |-> m.edge1, edge2 |-> m.edge2,
      stored |-> m.stored, adv |-> m.adv ]

(* the row loop with the plane pointers left where the packing stopped,   *)
(* as if every plane row were exactly as long as its samples              *)
encode_row_10_packed_planes ==
    /\ pc = "rows"
    /\ pic.format = "YUV422P10"
    /\ h < avctx.height
    /\ \E g \in GarbageFor(u, v) :
        LET m0 == Cursor(u, v, g)
        IN  \E m \in { row_10(m0) } :
            /\ pkt' = [pkt EXCEPT !.data = m.buf]
            /\ dst' = m.dst
            /\ y' = m.p.y
            /\ u' = m.p.u
            /\ v' = m.p.v
            /\ trace' = Append(trace, RowTrace(m0, m))
    /\ h' = h + 1
    /\ UNCHANGED << other, dl >>
    /\ UNCHANGED << avctx, s, pic, got_packet, ret, pc, u_even, v_even,
                    stride, line_padding >>
encode_row_10 ==
    /\ pc = "rows"
    /\ pic.format = "YUV422P10"
    /\ h < avctx.height
    /\ \E g \in GarbageFor(u, v) :
        LET m0 == Cursor(u, v, g)
        IN  \E m \in { row_10(m0) } :
            /\ pkt' = [pkt EXCEPT !.data = m.buf]
            /\ dst' = m.dst
            /\ y' = m.p.y + ((pic.linesize[1] \div 2) - avctx.width)
            /\ u' = m.p.u + ((pic.linesize[2] \div 2) - (avctx.width \div 2))
            /\ v' = m.p.v + ((pic.linesize[3] \div 2) - (avctx.width \div 2))
            /\ trace' = Append(trace, RowTrace(m0, m))
    /\ h' = h + 1
    /\ UNCHANGED << other, dl >>
    /\ UNCHANGED << avctx, s, pic, got_packet, ret, pc, u_even, v_even,
                    stride, line_padding >>

(* the selection with an odd progressive row keeping the advanced pointers *)
chroma_select_noreuse ==
    IF pic.format = "YUV420P"
    THEN IF pic.interlaced_frame = 1
         THEN IF h % 4 = 0 THEN << u, v, u, v >>
              ELSE IF h % 4 = 2 THEN << u_even, v_even, u_even, v_even >>
              ELSE << u, v, u_even, v_even >>
         ELSE << u, v, u, v >>
    ELSE << u, v, u_even, v_even >>

(* the selection with interlaced frames handled like progressive ones *)
chroma_select_progressive ==
    IF pic.format = "YUV420P"
    THEN IF h % 2 = 1 THEN << u_even, v_even, u_even, v_even >>
         ELSE << u, v, u, v >>
    ELSE << u, v, u_even, v_even >>

(* the 4:2:0 chroma pointer selection at the top of the 8-bit loop:        *)
(* << u, v, u_even, v_even >> after it                                     *)
chroma_select ==
    IF pic.format = "YUV420P"
    THEN IF pic.interlaced_frame = 1
         THEN IF h % 4 = 0 THEN << u, v, u, v >>
              ELSE IF h % 4 = 2 THEN << u_even, v_even, u_even, v_even >>
              ELSE << u, v, u_even, v_even >>
         ELSE IF h % 2 = 1 THEN << u_even, v_even, u_even, v_even >>
              ELSE << u, v, u, v >>
    ELSE << u, v, u_even, v_even >>

encode_row_8 ==
    /\ pc = "rows"
    /\ pic.format \in {"YUV422P", "YUV420P"}
    /\ h < avctx.height
    /\ \E g \in GarbageFor(chroma_select[1], chroma_select[2]) :
        LET c == chroma_select
            m0 == Cursor(c[1], c[2], g)
        IN  \E m \in { row_8(m0) } :
            /\ pkt' = [pkt EXCEPT !.data = m.buf]
            /\ dst' = m.dst
            /\ y' = m.p.y + (pic.linesize[1] - avctx.width)
            /\ u' = m.p.u + (pic.linesize[2] - (avctx.width \div 2))
            /\ v' = m.p.v + (pic.linesize[3] - (avctx.width \div 2))
            /\ u_even' = c[3]
            /\ v_even' = c[4]
            /\ trace' = Append(trace, RowTrace(m0, m))
    /\ h' = h + 1
    /\ UNCHANGED << other, dl >>
    /\ UNCHANGED << avctx, s, pic, got_packet, ret, pc, stride,
                    line_padding >>

----------------------------------------------------------------------------
(* encode_frame, after the row loop: side data, flags, return *)

(* a frame without side data of a type treated as a failed allocation *)
RECURSIVE copy_side_data_strict(_, _, _)
copy_side_data_strict(p, t, failAt) ==
    IF t > 5 THEN << p, TRUE >>
    ELSE IF Len(pic.side_data[t]) > 0 /\ t # failAt
         THEN copy_side_data_strict(
                  av_packet_new_side_data(p, SideTypes[t], pic.side_data[t]),
                  t + 1, failAt)
         ELSE << p, FALSE >>

(* the side-data copies for types t..5; the allocation for type failAt     *)
(* (0: none) fails. Returns << packet, ok >>                               *)
RECURSIVE copy_side_data(_, _, _)
copy_side_data(p, t, failAt) ==
    IF t > 5 THEN << p, TRUE >>
    ELSE IF Len(pic.side_data[t]) > 0
         THEN IF t = failAt THEN << p, FALSE >>
              ELSE copy_side_data(
                       av_packet_new_side_data(p, SideTypes[t],
                                               pic.side_data[t]),
                       t + 1, failAt)
         ELSE copy_side_data(p, t + 1, failAt)

(* the packet flagged and reported before the side data copies *)
encode_frame_end_early_flag ==
    /\ pc = "rows"
    /\ h >= avctx.height
    /\ \E failAt \in 0 .. 5 :
        LET r == copy_side_data(pkt, 1, failAt)
        IN  /\ pkt' = [r[1] EXCEPT !.flags = BitOr(@, 1)]
            /\ got_packet' = 1
            /\ ret' = IF r[2] THEN 0 ELSE -12
    /\ pc' = "ready"
    /\ UNCHANGED << other, dl >>
    /\ UNCHANGED << avctx, s, pic, h, dst, y, u, v, u_even, v_even, stride,
                    line_padding, trace >>
encode_frame_end ==
    /\ pc = "rows"
    /\ h >= avctx.height
    /\ \E failAt \in 0 .. 5 :
        LET r == copy_side_data(pkt, 1, failAt)
        IN  IF r[2]
            THEN /\ pkt' = [r[1] EXCEPT !.flags = BitOr(@, 1)]
                 /\ got_packet' = 1
                 /\ ret' = 0
            ELSE /\ pkt' = r[1]
                 /\ got_packet' = got_packet
                 /\ ret' = -12
    /\ pc' = "ready"
    /\ UNCHANGED << other, dl >>
    /\ UNCHANGED << avctx, s, pic, h, dst, y, u, v, u_even, v_even, stride,
                    line_padding, trace >>

----------------------------------------------------------------------------

Next ==
    \/ encode_init
    \/ encode_frame_begin
    \/ encode_row_10
    \/ encode_row_8
    \/ encode_frame_end

Spec == Init /\ [][Next]_vars

----------------------------------------------------------------------------
(* Two encode_frame calls in progress on one context: they share avctx and *)
(* the V210EncContext s; each has its own frame, packet and locals. One    *)
(* call takes steps while the other is parked in `other`; a switch hands   *)
(* the processor over between any two steps of a call.                     *)

ParWidths == {14}
ParHeights == {3}
ParConfigs == [ width : ParWidths, height : ParHeights, pix_fmt : PixFmts ]

InitPar ==
    /\ avctx \in ParConfigs
    /\ s = [ pack_line_8 |-> "NULL", pack_line_10 |-> "NULL",
             sample_factor_8 |-> 0, sample_factor_10 |-> 0 ]
    /\ \E il \in InterlacedOptions(avctx.pix_fmt), sd \in SideDataOptions :
          pic = MkFrame(avctx.pix_fmt, avctx.width, avctx.height, il, 0, 0, sd)
    /\ \E il \in InterlacedOptions(avctx.pix_fmt) :
          other = ParkedCall(MkFrame(avctx.pix_fmt, avctx.width, avctx.height,
                                     il, 1, 1, [t \in 1 .. 5 |-> << >>]))
    /\ pkt = NoPacket
    /\ got_packet = 0
    /\ ret = 0
    /\ pc = "config"
    /\ h = 0 /\ dst = 0 /\ y = 0 /\ u = 0 /\ v = 0
    /\ u_even = 0 /\ v_even = 0
    /\ stride = 0 /\ line_padding = 0
    /\ trace = << >>
    /\ dl = NoDevice

(* the running call is parked and the parked call runs on; nothing of the  *)
(* shared context is touched                                               *)
ContextSwitch ==
    /\ pc \in {"ready", "rows"}
    /\ other' = [ pic |-> pic, pkt |-> pkt, got_packet |-> got_packet,
                  ret |-> ret, pc |-> pc, h |-> h, dst |-> dst,
                  y |-> y, u |-> u, v |-> v,
                  u_even |-> u_even, v_even |-> v_even,
                  stride |-> stride, line_padding |-> line_padding,
                  trace |-> trace,
                  mixed |-> IF pc = "rows" /\ other.pc = "rows" THEN TRUE
                            ELSE IF pc = "ready" /\ other.pc = "ready"
                                 THEN FALSE
                                 ELSE other.mixed ]
    /\ pic' = other.pic
    /\ pkt' = other.pkt
    /\ got_packet' = other.got_packet
    /\ ret' = other.ret
    /\ pc' = other.pc
    /\ h' = other.h
    /\ dst' = other.dst
    /\ y' = other.y /\ u' = other.u /\ v' = other.v
    /\ u_even' = other.u_even /\ v_even' = other.v_even
    /\ stride' = other.stride
    /\ line_padding' = other.line_padding
    /\ trace' = other.trace
    /\ UNCHANGED << avctx, s, dl >>

NextPar ==
    \/ encode_init
    \/ encode_frame_begin
    \/ encode_row_10
    \/ encode_row_8
    \/ encode_frame_end
    \/ ContextSwitch

SpecPar == InitPar /\ [][NextPar]_vars

-----------------------------------------------------------------------------
(* The DeckLink output device, libavdevice/decklink_enc.cpp: the frames the *)
(* muxer hands to the card, and the buffer spots that bound them           *)

(* FFMIN(ctx->frames_buffer, 60) *)
MaxFramesBuffer == 60

(* bounds of the device configurations explored *)
MaxDeviceWidth == 50
MaxPrerollHalves == 2

FFMIN(a, b) == IF a > b THEN b ELSE a

(* widths of the output mode, bmd_width *)
DeviceWidths == 1 .. MaxDeviceWidth

(* st->time_base.den of the video stream *)
TimeBaseDens == {1, 2, 25, 60000}

(* the preroll option in seconds, counted in halves of a second *)
PrerollHalves == 0 .. MaxPrerollHalves

(* the video streams written to the device: codec, width, time base *)
DeviceConfigs ==
    [ codec_id : {"V210"}, bmd_width : DeviceWidths, den : {1, 2} ]
    \cup [ codec_id : {"WRAPPED_AVFRAME"}, bmd_width : {2, 48, 50},
           den : {1, 2} ]
    \cup [ codec_id : {"V210"}, bmd_width : {48}, den : TimeBaseDens ]

(* every encoder variable: the device never touches them *)
encoder_vars ==
    << avctx, s, pic, pkt, got_packet, ret, pc, h, dst, y, u, v,
       u_even, v_even, stride, line_padding, trace, other >>

(* a device context before decklink_setup_video, no encoder call running *)
InitDL ==
    /\ avctx = [ width |-> 48, height |-> 1, pix_fmt |-> "YUV422P10" ]
    /\ s = [ pack_line_8 |-> "NULL", pack_line_10 |-> "NULL",
             sample_factor_8 |-> 0, sample_factor_10 |-> 0 ]
    /\ pic = NoFrame
    /\ pkt = NoPacket
    /\ got_packet = 0
    /\ ret = 0
    /\ pc = "config"
    /\ h = 0 /\ dst = 0 /\ y = 0 /\ u = 0 /\ v = 0
    /\ u_even = 0 /\ v_even = 0
    /\ stride = 0 /\ line_padding = 0
    /\ trace = << >>
    /\ other = NoCall
    /\ \E c \in DeviceConfigs :
          dl = [ NoDevice EXCEPT !.pc = "setup", !.codec_id = c.codec_id,
                                 !.bmd_width = c.bmd_width, !.den = c.den ]

(* a row count that ignores the 48-pixel alignment *)
GetRowBytes_packed(codec_id, linesize0, width) ==
    IF codec_id = "WRAPPED_AVFRAME"
    THEN IF linesize0 < 0 THEN -linesize0 ELSE linesize0
    ELSE ((width + 5) \div 6) * 16

(* decklink_frame::GetRowBytes *)
GetRowBytes(codec_id, linesize0, width) ==
    IF codec_id = "WRAPPED_AVFRAME"
    THEN IF linesize0 < 0 THEN -linesize0 ELSE linesize0
    ELSE ((width + 47) \div 48) * 128

(* ctx->frames_preroll of decklink_setup_video: den * preroll, truncated   *)
(* to int, in thousandths for a time base finer than 1/1000                *)
FramesPreroll(den, halves) ==
    IF den > 1000 THEN ((den * halves) \div 2) \div 1000
    ELSE (den * halves) \div 2

(* decklink_setup_video: the stream is refused (-1), or the buffer is      *)
(* sized from the preroll and every spot is free                           *)
decklink_setup_video ==
    /\ dl.pc = "setup"
    /\ \E accepted \in BOOLEAN, halves \in PrerollHalves :
          IF ~accepted
          THEN dl' = [ dl EXCEPT !.pc = "failed", !.ret = -1 ]
          ELSE LET preroll == FramesPreroll(dl.den, halves)
                   buffer == FFMIN(preroll * 2, MaxFramesBuffer)
               IN  dl' = [ dl EXCEPT !.pc = "open", !.ret = 0,
                                     !.frames_preroll = preroll,
                                     !.frames_buffer = buffer,
                                     !.frames_buffer_available_spots = buffer ]
    /\ UNCHANGED encoder_vars

(* decklink_write_video_packet up to the lock: a wrapped frame of another  *)
(* format or size is refused (EINVAL), a failed clone gives EIO, and       *)
(* otherwise the decklink_frame exists and the call asks for a spot        *)
write_video_packet_begin ==
    /\ dl.pc = "open" /\ dl.wpc = "idle"
    /\ \E valid \in BOOLEAN, cloned \in BOOLEAN, negative \in BOOLEAN :
          IF dl.codec_id = "WRAPPED_AVFRAME" /\ ~valid
          THEN dl' = [ dl EXCEPT !.ret = -22 ]
          ELSE IF ~cloned
          THEN dl' = [ dl EXCEPT !.ret = -5 ]
          ELSE dl' = [ dl EXCEPT
                         !.wpc = "wait",
                         !.linesize0 =
                             IF dl.codec_id = "WRAPPED_AVFRAME"
                             THEN IF negative THEN -(2 * dl.bmd_width)
                                  ELSE 2 * dl.bmd_width
                             ELSE 0 ]
    /\ UNCHANGED encoder_vars

(* the wait loop under ctx->mutex: the call goes on once a spot is free,   *)
(* and takes it                                                            *)
write_video_packet_wait ==
    /\ dl.pc = "open" /\ dl.wpc = "wait"
    /\ dl.frames_buffer_available_spots # 0
    /\ dl' = [ dl EXCEPT !.wpc = "schedule",
                         !.frames_buffer_available_spots = @ - 1 ]
    /\ UNCHANGED encoder_vars

(* the rest of decklink_write_video_packet: ScheduleVideoFrame takes the   *)
(* frame or fails (EIO), then playback is started after the preroll        *)
write_video_packet_schedule ==
    /\ dl.pc = "open" /\ dl.wpc = "schedule"
    /\ \E hr_ok \in BOOLEAN, late \in BOOLEAN, started \in BOOLEAN :
          IF ~hr_ok
          THEN dl' = [ dl EXCEPT !.wpc = "idle", !.ret = -5 ]
          ELSE LET taken ==
                       [ dl EXCEPT
                           !.wpc = "idle",
                           !.scheduled = @ + 1,
                           !.row_bytes = GetRowBytes(dl.codec_id, dl.linesize0,
                                                     dl.bmd_width) ]
               IN  IF dl.playback_started = 0 /\ late
                   THEN IF started
                        THEN dl' = [ taken EXCEPT !.playback_started = 1,
                                                  !.ret = 0 ]
                        ELSE dl' = [ taken EXCEPT !.ret = -5 ]
                   ELSE dl' = [ taken EXCEPT !.ret = 0 ]
    /\ UNCHANGED encoder_vars

(* decklink_output_callback::ScheduledFrameCompleted, for a frame the card *)
(* holds: its spot is free again and the waiters are woken                 *)
ScheduledFrameCompleted ==
    /\ dl.pc = "open"
    /\ dl.scheduled > 0
    /\ dl' = [ dl EXCEPT !.scheduled = @ - 1,
                         !.frames_buffer_available_spots = @ + 1 ]
    /\ UNCHANGED encoder_vars

NextDL ==
    \/ decklink_setup_video
    \/ write_video_packet_begin
    \/ write_video_packet_wait
    \/ write_video_packet_schedule
    \/ ScheduledFrameCompleted

(* the muxer thread runs on whenever it can, and the card completes every  *)
(* frame it holds                                                          *)
SpecDL ==
    /\ InitDL
    /\ [][NextDL]_vars
    /\ WF_vars(write_video_packet_wait)
    /\ WF_vars(write_video_packet_schedule)
    /\ WF_vars(ScheduledFrameCompleted)

----------------------------------------------------------------------------
(* Reading the output packet and the input frame *)

(* an encode_frame call has returned 0 with *got_packet = 1 *)
Returned == pc = "ready" /\ got_packet = 1

(* the line stride as the format defines it: 48 pixels take 128 bytes *)
CeilDiv(a, b) == CHOOSE n \in 0 .. a : n * b >= a /\ (n = 0 \/ (n - 1) * b < a)
LineBytes == CeilDiv(avctx.width, 48) * 128

(* byte i and 32-bit little-endian word j (both from 0) of output row r *)
ByteAt(r, i) == pkt.data[r * LineBytes + i + 1]
WordAt(r, j) ==
    ByteAt(r, 4 * j) + 256 * ByteAt(r, 4 * j + 1)
    + 65536 * ByteAt(r, 4 * j + 2) + 16777216 * ByteAt(r, 4 * j + 3)
(* the 10-bit field f (0, 1, 2) of a word *)
FieldOf(word, f) == (word \div (1024 ^ f)) % 1024

(* sample i (from 0) of row r of the luma plane, and of a chroma plane     *)
(* (2: U, 3: V) at sample offset off                                       *)
LumaAt(r, i) == pic.data[1][r * (pic.linesize[1] \div SampleBytes(pic.format)) + i + 1]
ChromaAt(pl, off) == pic.data[pl][off + 1]

Clip10(x) == IF x < 4 THEN 4 ELSE IF x > 1019 THEN 1019 ELSE x

----------------------------------------------------------------------------
(* C1: for every even width, every height and each of the three formats,   *)
(* encode_frame requests, and on success returns, a packet of exactly      *)
(* height * stride bytes with stride = ((width+47)/48)*48*8/3.             *)
C1_PacketSize ==
    (pc = "rows" \/ Returned) =>
        /\ pkt.size
             = avctx.height * (((((avctx.width + 47) \div 48) * 48) * 8) \div 3)
        /\ Len(pkt.data) = pkt.size

C1_Witness ==
    /\ Returned
    /\ avctx.width = 50 /\ avctx.height = 3 /\ avctx.pix_fmt = "YUV420P"
    /\ pkt.size = 768

(* C2: the line stride used by an encode is ceil(width/48)*48*8/3, is a    *)
(* multiple of 4, and is determined by the width alone (the right-hand     *)
(* side mentions neither the height nor the pixel format).                 *)
C2_StrideOfWidth ==
    pc = "rows" =>
        /\ stride = ((CeilDiv(avctx.width, 48) * 48) * 8) \div 3
        /\ stride % 4 = 0
        /\ 3 * stride = CeilDiv(avctx.width, 48) * 48 * 8

C2_Witness ==
    /\ pc = "rows" /\ avctx.width = 52 /\ stride = 256
    /\ avctx.height = 2 /\ avctx.pix_fmt = "YUV422P"

(* C3: v210_planar_pack_10_c, given a multiple of 6 samples, writes for    *)
(* each group of 6 luma samples the four little-endian words               *)
(* U0|Y0<<10|V0<<20, Y1|U1<<10|Y2<<20, V1|Y3<<10|U2<<20, Y4|V2<<10|Y5<<20  *)
(* of the clipped samples, clip(v) = max(4, min(1019, v)).                 *)
C3_GroupWords(r, g) ==
    LET Y(i) == Clip10(LumaAt(r, 6 * g + i))
        U(i) == Clip10(ChromaAt(2, trace[r + 1].u0 + 3 * g + i))
        V(i) == Clip10(ChromaAt(3, trace[r + 1].v0 + 3 * g + i))
    IN  /\ WordAt(r, 4 * g)     = U(0) + Y(0) * 1024 + V(0) * 1048576
        /\ WordAt(r, 4 * g + 1) = Y(1) + U(1) * 1024 + Y(2) * 1048576
        /\ WordAt(r, 4 * g + 2) = V(1) + Y(3) * 1024 + U(2) * 1048576
        /\ WordAt(r, 4 * g + 3) = Y(4) + V(2) * 1024 + Y(5) * 1048576

C3_PackerWords ==
    (Returned /\ s.pack_line_10 = "v210_planar_pack_10_c"
              /\ pic.format = "YUV422P10") =>
        \A r \in 0 .. avctx.height - 1 :
            \A g \in 0 .. (trace[r + 1].bulk \div 6) - 1 : C3_GroupWords(r, g)

C3_Witness ==
    /\ Returned /\ s.pack_line_10 = "v210_planar_pack_10_c"
    /\ pic.format = "YUV422P10" /\ avctx.width = 18 /\ avctx.height = 2
    /\ trace[2].bulk = 18
    /\ \E i \in 0 .. 17 : LumaAt(1, i) > 1019
    /\ \E i \in 0 .. 17 : LumaAt(1, i) < 4

----------------------------------------------------------------------------
(* The components of a line in v210 order U0,Y0,V0,Y1,U1,Y2,V1,Y3,...:     *)
(* component j (from 0) of output row r is a luma sample when j is odd and *)
(* a chroma sample, U and V alternating, when j is even.                   *)

Rows == 0 .. avctx.height - 1
Components == 0 .. 2 * avctx.width - 1

(* the chroma sample at offset off of plane pl as row r read it *)
ChromaRead(pl, off, r) ==
    IF off < Len(pic.data[pl]) THEN ChromaAt(pl, off) ELSE trace[r + 1].g

ComponentInPlane(r, j) ==
    \/ j % 2 = 1
    \/ /\ (j \div 2) % 2 = 0
       /\ trace[r + 1].u0 + (j \div 4) < Len(pic.data[2])
    \/ /\ (j \div 2) % 2 = 1
       /\ trace[r + 1].v0 + (j \div 4) < Len(pic.data[3])

ComponentSample(r, j) ==
    IF j % 2 = 1 THEN LumaAt(r, j \div 2)
    ELSE IF (j \div 2) % 2 = 0
         THEN ChromaRead(2, trace[r + 1].u0 + (j \div 4), r)
         ELSE ChromaRead(3, trace[r + 1].v0 + (j \div 4), r)

(* the 10-bit field of output row r that component j occupies *)
ComponentField(r, j) == FieldOf(WordAt(r, j \div 3), j % 3)

Clip8(x) == IF x < 1 THEN 1 ELSE IF x > 254 THEN 254 ELSE x

(* C4: clamping. Every packed sample s occupies a 10-bit field in [4,1019] *)
(* that equals clip(s) on the 10-bit path and clip8(s)<<2, with clip8(s)   *)
(* in [1,254] and the low 2 bits zero, on the 8-bit paths; bulk, tail and  *)
(* partial words alike, for any sample value.                              *)
C4_Clamping ==
    Returned =>
        \A r \in Rows : \A j \in Components :
            LET f == ComponentField(r, j)
                smp == ComponentSample(r, j)
            IN  /\ f >= 4 /\ f <= 1019
                /\ IF pic.format = "YUV422P10"
                   THEN ComponentInPlane(r, j) => f = Clip10(smp)
                   ELSE /\ f % 4 = 0
                        /\ f \div 4 >= 1 /\ f \div 4 <= 254
                        /\ ComponentInPlane(r, j) => f = Clip8(smp) * 4

C4_Witness ==
    /\ Returned /\ pic.format = "YUV420P" /\ avctx.width = 10
    /\ avctx.height = 3
    /\ trace[3].edge1 /\ trace[3].edge2
    /\ ComponentSample(2, 19) = 255 /\ ComponentField(2, 19) = 1016
    /\ \E j \in Components : ComponentSample(2, j) = 0

(* C5: every 32-bit little-endian word of the output buffer has bits 30    *)
(* and 31 zero (its most significant byte is below 64): full-group words,  *)
(* partial words and padding words, all formats.                           *)
C5_TopBitsZero ==
    Returned =>
        \A k \in 0 .. (pkt.size \div 4) - 1 :
            pkt.data[4 * k + 4] >= 0 /\ pkt.data[4 * k + 4] < 64

C5_Witness ==
    /\ Returned /\ pic.format = "YUV422P10" /\ avctx.width = 8
    /\ avctx.height = 2
    /\ \E r \in Rows : \E j \in Components :
          j % 3 = 2 /\ ComponentSample(r, j) = 65535
                    /\ ComponentField(r, j) = 1019
    /\ pkt.data[4] > 0

(* C6: in every output line the trailing                                   *)
(* line_padding = stride - ((width*8+11)/12)*4 bytes are zero.             *)
C6_PaddingZero ==
    Returned =>
        \A r \in Rows :
            \A i \in ((avctx.width * 8 + 11) \div 12) * 4 .. LineBytes - 1 :
                ByteAt(r, i) = 0

C6_Witness ==
    /\ Returned /\ avctx.width = 50 /\ avctx.height = 2
    /\ pic.format = "YUV422P10"
    /\ ((avctx.width * 8 + 11) \div 12) * 4 = 136
    /\ WordAt(1, 33) # 0
    /\ ByteAt(1, 136) = 0 /\ ByteAt(1, 255) = 0

(* C7: each output line is byte-identical to a reference scalar packer     *)
(* that takes the line's components in v210 order sample by sample, clips  *)
(* each, packs three per word at bits 0-9/10-19/20-29 and zero-fills the   *)
(* unused fields of the last word and the rest of the line.                *)
RefValue(x) == IF pic.format = "YUV422P10" THEN Clip10(x) ELSE Clip8(x) * 4

RefComponents(r) ==
    [j \in 1 .. 2 * avctx.width |-> RefValue(ComponentSample(r, j - 1))]

RefWordBytes(a, b, c) ==
    LET word == a + 1024 * b + 1048576 * c
    IN  << word % 256, (word \div 256) % 256, (word \div 65536) % 256,
           word \div 16777216 >>

RECURSIVE RefPack(_)
RefPack(cs) ==
    IF Len(cs) = 0 THEN << >>
    ELSE IF Len(cs) = 1 THEN RefWordBytes(cs[1], 0, 0)
    ELSE IF Len(cs) = 2 THEN RefWordBytes(cs[1], cs[2], 0)
    ELSE RefWordBytes(cs[1], cs[2], cs[3])
         \o RefPack(SubSeq(cs, 4, Len(cs)))

RefLine(r) ==
    LET packed == RefPack(RefComponents(r))
    IN  packed \o [i \in 1 .. LineBytes - Len(packed) |-> 0]

C7_MatchesReference ==
    Returned =>
        \A r \in Rows :
            SubSeq(pkt.data, r * LineBytes + 1, (r + 1) * LineBytes)
                = RefLine(r)

C7_Witness ==
    /\ Returned /\ avctx.width = 52 /\ avctx.height = 2
    /\ pic.format = "YUV422P"
    /\ trace[2].edge1 /\ trace[2].edge2 /\ trace[2].bulk = 48
    /\ Len(RefPack(RefComponents(1))) = 140

(* C8: when the width is an exact multiple of the bulk group size          *)
(* (6*sample_factor_10, 12*sample_factor_8; width 48 in particular) the    *)
(* bulk call covers the whole line: the scalar tail loop runs zero times   *)
(* and neither partial-word branch is taken.                               *)
BulkGroup ==
    IF pic.format = "YUV422P10" THEN 6 * s.sample_factor_10
    ELSE 12 * s.sample_factor_8

C8_BulkCoversLine ==
    (pc \in {"rows", "ready"} /\ Len(trace) > 0
        /\ avctx.width % BulkGroup = 0) =>
        \A i \in 1 .. Len(trace) :
            /\ trace[i].bulk = avctx.width
            /\ trace[i].tail = 0
            /\ ~trace[i].edge1
            /\ ~trace[i].edge2

C8_Witness ==
    /\ Returned /\ avctx.width = 48 /\ avctx.height = 2
    /\ pic.format = "YUV422P" /\ s.sample_factor_8 = 2
    /\ trace[2].bulk = 48 /\ trace[2].tail = 0
    /\ trace[2].dst1 - trace[2].dst0 = 128

----------------------------------------------------------------------------
(* 4:2:0 chroma rows *)

ChromaComponents == { j \in Components : j % 2 = 0 }

(* output rows a and b carry the same chroma fields *)
SameChroma(a, b) ==
    \A j \in ChromaComponents : ComponentField(a, j) = ComponentField(b, j)

(* output row r carries source chroma row c: it was packed from the start  *)
(* of that row of both planes, and its chroma fields are that row clipped  *)
CarriesChromaRow(r, c) ==
    /\ trace[r + 1].u0 = c * pic.linesize[2]
    /\ trace[r + 1].v0 = c * pic.linesize[3]
    /\ \A j \in ChromaComponents :
          ComponentField(r, j)
            = Clip8(ChromaAt(IF (j \div 2) % 2 = 0 THEN 2 ELSE 3,
                             c * pic.linesize[2] + (j \div 4))) * 4

(* C9: 4:2:0 input not marked interlaced: the chroma pointers captured on  *)
(* an even output row are reused on the following odd row, so output rows  *)
(* 2k and 2k+1 carry identical chroma, that of source chroma row k.        *)
C9_ProgressiveChroma ==
    (Returned /\ pic.format = "YUV420P" /\ pic.interlaced_frame # 1) =>
        \A k \in Rows :
            (2 * k + 1 < avctx.height) =>
                /\ SameChroma(2 * k, 2 * k + 1)
                /\ CarriesChromaRow(2 * k, k)
                /\ CarriesChromaRow(2 * k + 1, k)

C9_Witness ==
    /\ Returned /\ pic.format = "YUV420P" /\ pic.interlaced_frame = 0
    /\ avctx.height = 8 /\ avctx.width = 6
    /\ SameChroma(4, 5)
    /\ ~SameChroma(3, 4) /\ ~SameChroma(5, 6)

(* C10 as stated: for interlaced 4:2:0 input, rows 4k and 4k+1 carry       *)
(* identical chroma and rows 4k+2 and 4k+3 carry identical chroma.         *)
C10_AsStated ==
    (Returned /\ pic.format = "YUV420P" /\ pic.interlaced_frame = 1) =>
        \A k \in Rows :
            /\ (4 * k + 1 < avctx.height) => SameChroma(4 * k, 4 * k + 1)
            /\ (4 * k + 3 < avctx.height) => SameChroma(4 * k + 2, 4 * k + 3)

(* C10 amended: for interlaced 4:2:0 input, in each 4-row group rows 4k    *)
(* and 4k+2 carry identical chroma (the line captured at row 4k, source    *)
(* chroma row 2k) and rows 4k+1 and 4k+3 carry identical chroma (the next  *)
(* line, source chroma row 2k+1), for every k whose rows exist.            *)
C10_InterlacedChroma ==
    (Returned /\ pic.format = "YUV420P" /\ pic.interlaced_frame = 1) =>
        \A k \in Rows :
            /\ (4 * k + 2 < avctx.height) =>
                  /\ SameChroma(4 * k, 4 * k + 2)
                  /\ CarriesChromaRow(4 * k, 2 * k)
                  /\ CarriesChromaRow(4 * k + 2, 2 * k)
            /\ (4 * k + 3 < avctx.height) =>
                  /\ SameChroma(4 * k + 1, 4 * k + 3)
                  /\ CarriesChromaRow(4 * k + 1, 2 * k + 1)
                  /\ CarriesChromaRow(4 * k + 3, 2 * k + 1)

C10_Witness ==
    /\ Returned /\ pic.format = "YUV420P" /\ pic.interlaced_frame = 1
    /\ avctx.height = 8 /\ avctx.width = 6
    /\ SameChroma(4, 6) /\ SameChroma(5, 7)
    /\ ~SameChroma(4, 5) /\ ~SameChroma(6, 7) /\ ~SameChroma(2, 4)

----------------------------------------------------------------------------
(* C11: encode_init fails, with EINVAL, exactly when the configured width  *)
(* is odd; the rejection comes before the packer is selected and before   *)
(* any frame is processed, and encode_frame never rejects a width itself: *)
(* EINVAL is returned by encode_init only.                                *)
PackerSelected ==
    /\ s.pack_line_8 # "NULL"
    /\ s.pack_line_10 # "NULL"
    /\ s.sample_factor_8 >= 1
    /\ s.sample_factor_10 >= 1

C11_OddWidthRejected ==
    /\ pc # "config" =>
          /\ (pc = "init_failed") <=> (avctx.width % 2 = 1)
          /\ (ret = -22) <=> (avctx.width % 2 = 1)
    /\ pc = "init_failed" =>
          /\ ~PackerSelected
          /\ s.pack_line_8 = "NULL" /\ s.pack_line_10 = "NULL"
          /\ pkt = NoPacket /\ got_packet = 0 /\ trace = << >>
    /\ pc \in {"ready", "rows"} => PackerSelected

C11_Witness ==
    /\ pc = "init_failed"
    /\ ret = -22
    /\ avctx.width = 7
    /\ s.pack_line_10 = "NULL"

----------------------------------------------------------------------------
(* C12: the error returns of encode_frame.                                 *)
(* A call of encode_frame has returned and its output buffer was allocated *)
BufferAllocated == pc = "ready" /\ pkt.size > 0

(* the packet carries a side data entry of the type numbered t *)
SideCopied(t) ==
    \E k \in 1 .. Len(pkt.side_data) : pkt.side_data[k].type = SideTypes[t]

(* every non-empty side data of the frame has its copy in the packet *)
AllSideCopied ==
    \A t \in 1 .. 5 : Len(pic.side_data[t]) > 0 => SideCopied(t)

----------------------------------------------------------------------------
(* C13: a call of encode_frame completes or fails as a whole.              *)
(* Every byte of the packet of the next state has been stored *)
AllBytesWritten ==
    /\ pkt'.size = avctx.height * Stride(avctx.width)
    /\ Len(pkt'.data) = pkt'.size
    /\ \A i \in 1 .. Len(pkt'.data) : pkt'.data[i] \in 0 .. 255

(* the caller hands in *got_packet = 0 at every call; encode_frame stores  *)
(* 1 in the step that returns 0, after the last row, with the key-frame    *)
(* flag; a step that returns an error leaves it as the caller set it; no   *)
(* step changes the input frame.                                           *)
C13_Step ==
    /\ pic' = pic
    /\ got_packet' = 1 =>
          /\ pc = "rows" /\ pc' = "ready"
          /\ ret' = 0
          /\ h = avctx.height
          /\ dst = avctx.height * Stride(avctx.width)
          /\ AllBytesWritten
          /\ pkt'.flags % 2 = 1
    /\ (pc = "rows" /\ pc' = "ready" /\ ret' # 0) =>
          /\ got_packet' = got_packet
          /\ got_packet' = 0
    /\ (pc = "ready" /\ pc' = "ready") =>
          /\ ret' # 0
          /\ got_packet' = 0
          /\ pkt' = NoPacket
    /\ (pc' = "ready" /\ pc # "config" /\ ret' = 0) => got_packet' = 1

(* C13: *got_packet becomes 1, with the key-frame flag, only in the return *)
(* of 0 that follows the writing of all height * stride bytes; every error *)
(* return leaves *got_packet unchanged and the input frame untouched.      *)
C13_AtomicCall ==
    /\ [](pc = "rows" => got_packet = 0)
    /\ [][C13_Step]_vars

C13_Witness ==
    /\ pc = "ready"
    /\ ret = -12
    /\ got_packet = 0
    /\ pkt.size = avctx.height * Stride(avctx.width)
    /\ pkt.size > 0
    /\ \A i \in 1 .. Len(pkt.data) : pkt.data[i] \in 0 .. 255
    /\ pkt.flags % 2 = 0

----------------------------------------------------------------------------
(* C14: round trip of in-range input.                                      *)
LegalSample(x) ==
    IF pic.format = "YUV422P10" THEN x >= 4 /\ x <= 1019
    ELSE x >= 1 /\ x <= 254

(* every sample of the three planes of the frame is inside the clip range *)
AllLegal ==
    \A pl \in 1 .. 3 : \A i \in 1 .. Len(pic.data[pl]) :
        LegalSample(pic.data[pl][i])

(* a 10-bit field read back as a sample of the input's depth *)
Unpack(f) == IF pic.format = "YUV422P10" THEN f ELSE f \div 4

(* C14: for a frame whose samples all lie in the clip range ([4,1019] for  *)
(* 10-bit, [1,254] for 8-bit), the 10-bit fields of the output words, in   *)
(* v210 order and shifted right by 2 on the 8-bit paths, are exactly the   *)
(* samples that were packed; full groups and the partial words of          *)
(* remainders 2 and 4 alike.                                               *)
C14_RoundTrip ==
    (Returned /\ AllLegal) =>
        \A r \in Rows : \A j \in Components :
            ComponentInPlane(r, j) =>
                Unpack(ComponentField(r, j)) = ComponentSample(r, j)

C14_Witness ==
    /\ Returned /\ AllLegal
    /\ pic.format = "YUV422P" /\ avctx.width = 10 /\ avctx.height = 2
    /\ trace[2].edge1 /\ trace[2].edge2
    /\ ComponentField(1, 19) \div 4 = ComponentSample(1, 19)
    /\ \E j \in Components : ComponentSample(1, j) = 1

----------------------------------------------------------------------------
(* C15: the worked example, one line of six 10-bit 4:2:2 pixels with       *)
(* Y = 100..600, U = 10, 20, 30 and V = 40, 50, 60.                        *)
ExampleEncoded == Returned /\ pic = ExampleFrame

(* the four words of the example *)
ExampleWords ==
    /\ WordAt(0, 0) = 10 + 100 * (2 ^ 10) + 40 * (2 ^ 20)
    /\ WordAt(0, 1) = 200 + 20 * (2 ^ 10) + 300 * (2 ^ 20)
    /\ WordAt(0, 2) = 50 + 400 * (2 ^ 10) + 30 * (2 ^ 20)
    /\ WordAt(0, 3) = 500 + 60 * (2 ^ 10) + 600 * (2 ^ 20)

(* C15 as stated: the encoder produces exactly 16 bytes, the four words.   *)
C15_AsStated ==
    ExampleEncoded =>
        /\ pkt.size = 16
        /\ Len(pkt.data) = 16
        /\ ExampleWords

(* C15: for the example the encoder produces one line of 128 bytes (the    *)
(* stride of a width of 6): the four words 10|100<<10|40<<20,              *)
(* 200|20<<10|300<<20, 50|400<<10|30<<20, 500|60<<10|600<<20, no value     *)
(* changed by clipping, then 112 zero bytes.                               *)
C15_Example ==
    ExampleEncoded =>
        /\ pkt.size = 128
        /\ Len(pkt.data) = 128
        /\ ExampleWords
        /\ \A j \in 0 .. 11 : ComponentField(0, j) = ComponentSample(0, j)
        /\ \A i \in 16 .. 127 : ByteAt(0, i) = 0

C15_Witness ==
    /\ ExampleEncoded
    /\ avctx.width = 6 /\ avctx.height = 1
    /\ trace[1].bulk = 6 /\ ~trace[1].edge1
    /\ FieldOf(WordAt(0, 3), 2) = 600

----------------------------------------------------------------------------
(* C16: what the 10-bit bulk call stores and how far the encoder moves dst *)
(* the rows of a 10-bit frame packed so far *)
Rows10 == IF pic.format = "YUV422P10" THEN 1 .. Len(trace) ELSE { }

(* C16 as stated: for a count that is a multiple of 6 the packer stores    *)
(* count/6*4 bytes and the encoder advances dst by the same amount.        *)
C16_AsStated ==
    \A r \in Rows10 :
        /\ trace[r].bulk % 6 = 0
        /\ trace[r].stored = (trace[r].bulk \div 6) * 4
        /\ trace[r].adv = trace[r].stored

(* C16: for a count that is a multiple of 6 the 10-bit packer stores       *)
(* count/6*4 words of 32 bits, count/6*16 bytes, and the encoder advances  *)
(* dst by the same number of bytes after the bulk call; those bytes hold   *)
(* the words of the count/6 groups.                                        *)
C16_BulkBytes ==
    \A r \in Rows10 :
        /\ trace[r].bulk % 6 = 0
        /\ trace[r].stored = (trace[r].bulk \div 6) * 16
        /\ trace[r].adv = trace[r].stored
        /\ \A i \in 1 .. trace[r].stored :
              pkt.data[trace[r].dst0 + i] \in 0 .. 255

C16_Witness ==
    /\ Returned /\ pic.format = "YUV422P10"
    /\ avctx.width = 50
    /\ trace[1].bulk = 48
    /\ trace[1].stored = 128 /\ trace[1].adv = 128
    /\ trace[1].edge1 /\ ~trace[1].edge2

----------------------------------------------------------------------------
(* C18: side data pass-through.                                            *)
(* the entries of the packet's side data list of the type numbered t *)
PacketEntries(t) ==
    { k \in 1 .. Len(pkt.side_data) : pkt.side_data[k].type = SideTypes[t] }

----------------------------------------------------------------------------
(* C19: the unrolled 8-bit packer against the 6-sample group step.         *)
(* the 6-sample, 4-word group step applied n times, one group at a time *)
RECURSIVE GroupAtATime(_, _)
GroupAtATime(m, n) ==
    IF m.i < n
    THEN GroupAtATime([Group8(m) EXCEPT !.i = @ + 1], n)
    ELSE m

(* the pointers row r (from 1) handed to the bulk call, over an empty     *)
(* buffer of the bytes the call stored                                     *)
BulkInput(r) ==
    [ p |-> [y |-> trace[r].y0, u |-> trace[r].u0, v |-> trace[r].v0],
      dst |-> 0, buf |-> [i \in 1 .. trace[r].stored |-> -1],
      val |-> 0, w |-> 0, i |-> 0, g |-> trace[r].g, bulk |-> 0, tail |-> 0,
      edge1 |-> FALSE, edge2 |-> FALSE, stored |-> 0, adv |-> 0 ]

Rows8 == IF pic.format # "YUV422P10" THEN 1 .. Len(trace) ELSE { }

(* C19: for every count that is a multiple of 12, the bytes                *)
(* v210_planar_pack_8_c stores (8 words per 12 luma samples) are the bytes *)
(* the 6-sample 4-word group step of the scalar tail loop stores when      *)
(* applied count/6 times to the same samples.                              *)
C19_UnrolledEqualsGroups ==
    Returned =>
        \A r \in Rows8 :
            LET count == trace[r].bulk
                byGroups == GroupAtATime(BulkInput(r), count \div 6)
            IN  /\ count % 12 = 0
                /\ trace[r].stored = (count \div 12) * 32
                /\ byGroups.dst = trace[r].stored
                /\ byGroups.buf
                     = SubSeq(pkt.data, trace[r].dst0 + 1,
                              trace[r].dst0 + trace[r].stored)
                /\ v210_planar_pack_8_c(BulkInput(r), count).buf
                     = byGroups.buf

C19_Witness ==
    /\ Returned /\ pic.format = "YUV420P"
    /\ avctx.width = 30 /\ avctx.height = 2
    /\ s.sample_factor_8 = 1
    /\ trace[2].bulk = 24 /\ trace[2].stored = 64
    /\ trace[2].tail = 1
    /\ GroupAtATime(BulkInput(2), 4).dst = 64

----------------------------------------------------------------------------
(* C20: the words at the remainder boundary of a row.                      *)
(* the samples left after the last full group, and the words before them *)
Remainder == avctx.width % 6
FullWords == 4 * (avctx.width \div 6)

(* the words row r stored before its padding *)
WordsStored(r) ==
    (trace[r + 1].dst1 - trace[r + 1].dst0 - LinePadding(avctx.width)) \div 4

(* which of the three fields of word j of row r are non-zero; a packed     *)
(* sample is never zero, the clip ranges start at 4 and at 1               *)
Filled(r, j) == { f \in 0 .. 2 : FieldOf(WordAt(r, j), f) # 0 }

(* C20 as stated: with 4 samples left the word emitted at the boundary     *)
(* holds only U and Y, its V slot left for later; with 2 samples left the  *)
(* word is complete.                                                       *)
C20_AsStated ==
    Returned =>
        \A r \in Rows :
            /\ Remainder = 4 => Filled(r, FullWords) = {0, 1}
            /\ Remainder = 2 => Filled(r, FullWords) = {0, 1, 2}

(* C20: at the remainder boundary, with 2 or 4 samples left, the encoder   *)
(* emits one complete word U, Y, V and starts a second word with the next  *)
(* luma sample alone. With exactly 2 samples left that second word is      *)
(* flushed immediately, holding the one luma sample, and ends the line.    *)
(* With exactly 4 left it is held back, completed with U and Y and         *)
(* flushed, and a third word holding V and Y, its last field zero, ends    *)
(* the line. Every filled field is the clipped sample of its position.     *)
C20_RemainderWords ==
    Returned =>
        \A r \in Rows :
            /\ Remainder = 0 =>
                  /\ ~trace[r + 1].edge1 /\ ~trace[r + 1].edge2
                  /\ WordsStored(r) = FullWords
            /\ Remainder = 2 =>
                  /\ trace[r + 1].edge1 /\ ~trace[r + 1].edge2
                  /\ WordsStored(r) = FullWords + 2
                  /\ Filled(r, FullWords) = {0, 1, 2}
                  /\ Filled(r, FullWords + 1) = {0}
            /\ Remainder = 4 =>
                  /\ trace[r + 1].edge1 /\ trace[r + 1].edge2
                  /\ WordsStored(r) = FullWords + 3
                  /\ Filled(r, FullWords) = {0, 1, 2}
                  /\ Filled(r, FullWords + 1) = {0, 1, 2}
                  /\ Filled(r, FullWords + 2) = {0, 1}
            /\ \A j \in 3 * FullWords .. 2 * avctx.width - 1 :
                  ComponentInPlane(r, j) =>
                      ComponentField(r, j)
                          = IF pic.format = "YUV422P10"
                            THEN Clip10(ComponentSample(r, j))
                            ELSE 4 * Clip8(ComponentSample(r, j))

C20_Witness ==
    /\ Returned /\ pic.format = "YUV422P"
    /\ avctx.width = 10 /\ avctx.height = 1
    /\ WordsStored(0) = 7
    /\ Filled(0, 4) = {0, 1, 2}
    /\ Filled(0, 6) = {0, 1}
    /\ FieldOf(WordAt(0, 4), 2) = 4 * Clip8(ComponentSample(0, 14))

----------------------------------------------------------------------------
(* C17: two encode_frame calls sharing the packer record.                  *)
(* What a call on frame pic produces when it runs alone: line r is the     *)
(* packing of luma row r and of the chroma row the format assigns to it,   *)
(* a function of the frame and of the configured size only.                *)
AloneChromaRow(r) ==
    IF pic.format = "YUV420P"
    THEN IF pic.interlaced_frame = 1 THEN 2 * (r \div 4) + (r % 2)
         ELSE r \div 2
    ELSE r

AloneComponent(r, j) ==
    IF j % 2 = 1 THEN LumaAt(r, j \div 2)
    ELSE ChromaAt(2 + ((j \div 2) % 2),
                  AloneChromaRow(r)
                      * (pic.linesize[2] \div SampleBytes(pic.format))
                  + (j \div 4))

AloneLine(r) ==
    LET packed == RefPack([j \in 1 .. 2 * avctx.width |->
                              RefValue(AloneComponent(r, j - 1))])
    IN  packed \o [i \in 1 .. LineBytes - Len(packed) |-> 0]

AloneOutput ==
    /\ pkt.size = avctx.height * LineBytes
    /\ \A r \in Rows :
          SubSeq(pkt.data, r * LineBytes + 1, (r + 1) * LineBytes)
              = AloneLine(r)

(* a step of the two calls: only encode_init writes the packer record, and *)
(* the parked call changes only by being swapped with the running one      *)
C17_Step ==
    /\ pc # "config" => s' = s
    /\ pc = "config" => (pc' = "ready" /\ PackerSelected')
    /\ other' # other =>
          /\ other'.pkt = pkt /\ other'.pic = pic /\ other'.trace = trace
          /\ pkt' = other.pkt /\ pic' = other.pic /\ trace' = other.trace

(* C17: the packer record is written by ff_v210enc_init only, never by a   *)
(* step of encode_frame; and however the steps of two encode_frame calls   *)
(* that share it, on different frames and packets, are interleaved, each   *)
(* call that returns a packet returns the bytes it produces alone.         *)
C17_SharedRecord ==
    /\ [](Returned => AloneOutput)
    /\ [][C17_Step]_vars

C17_Witness ==
    /\ Returned /\ AloneOutput
    /\ other.pc = "ready" /\ other.got_packet = 1
    /\ other.mixed
    /\ other.pic # pic
    /\ other.pkt.data # pkt.data
    /\ s.sample_factor_8 = 2

----------------------------------------------------------------------------
(* C21: the bytes of a row before its padding.                             *)
(* the bytes row r (from 1) stored before the memset of its padding *)
PackedBytes(r) == trace[r].dst1 - trace[r].dst0 - line_padding

(* C21: for every even width = 6q + r a row stores, before its padding, a  *)
(* whole number of 4-byte words, ((8*width+11)/12)*4 = 16q + 0, 8, 12      *)
(* bytes for r = 0, 2, 4: two trailing words for a remainder of 2, three   *)
(* for a remainder of 4; the count never exceeds the stride, so            *)
(* line_padding is never negative.                                         *)
C21_RowBytes ==
    pc = "rows" \/ Returned =>
        \A r \in 1 .. Len(trace) :
            LET q == avctx.width \div 6
                rem == avctx.width % 6
                n == PackedBytes(r)
            IN  /\ n % 4 = 0
                /\ n = (((8 * avctx.width) + 11) \div 12) * 4
                /\ n = 16 * q + (IF rem = 0 THEN 0 ELSE IF rem = 2 THEN 8 ELSE 12)
                /\ (n - 16 * q) \div 4
                      = (IF rem = 0 THEN 0 ELSE IF rem = 2 THEN 2 ELSE 3)
                /\ n <= stride
                /\ line_padding >= 0
                /\ line_padding = stride - n
                /\ \A i \in 1 .. n : pkt.data[trace[r].dst0 + i] \in 0 .. 255

C21_Witness ==
    /\ Returned /\ pic.format = "YUV422P10"
    /\ avctx.width = 52
    /\ PackedBytes(1) = 140
    /\ line_padding = 116
    /\ trace[1].edge1 /\ trace[1].edge2

----------------------------------------------------------------------------
(* C22: the output position row by row.                                    *)
(* C22: the iteration for row h starts with dst exactly h*stride bytes     *)
(* into the buffer and stores exactly stride bytes, words and zero         *)
(* padding; the bytes below dst are all stored and none at or above it     *)
(* is; after the last row all height*stride bytes are stored; the buffer   *)
(* never holds a byte beyond height*stride.                                *)
C22_RowPositions ==
    pc = "rows" \/ Returned =>
        /\ stride = (((avctx.width + 47) \div 48) * 48 * 8) \div 3
        /\ Len(pkt.data) = avctx.height * stride
        /\ Len(trace) = h
        /\ dst = h * stride
        /\ h <= avctx.height
        /\ Returned => h = avctx.height
        /\ \A r \in 1 .. Len(trace) :
              /\ trace[r].dst0 = (r - 1) * stride
              /\ trace[r].dst1 = r * stride
        /\ \A i \in 1 .. Len(pkt.data) :
              IF i <= dst THEN pkt.data[i] \in 0 .. 255
              ELSE pkt.data[i] = -1

C22_Witness ==
    /\ pc = "rows" /\ pic.format = "YUV420P"
    /\ avctx.width = 50 /\ avctx.height = 4
    /\ h = 2 /\ dst = 512
    /\ pkt.data[512] = 0
    /\ pkt.data[513] = -1
    /\ pkt.data[256 + 129] # 0

----------------------------------------------------------------------------
(* C23: the output does not depend on the sample factors.                  *)
(* the pointers row r (from 1) started with, over an empty line *)
RowInput(r) ==
    [BulkInput(r) EXCEPT !.buf = [i \in 1 .. stride |-> -1]]

(* the row as the split with factor 1 packs it: the bulk call takes every  *)
(* full group of 6 (10-bit) or 12 (8-bit) samples                          *)
FactorOneRow(r) ==
    LET ten == pic.format = "YUV422P10"
        size == IF ten THEN 6 ELSE 12
        sample_w == avctx.width \div size
        w == sample_w * size
        m0 == RowInput(r)
        m1 == IF ten THEN pack_line_10(m0, w) ELSE pack_line_8(m0, w)
        m2 == [m1 EXCEPT !.w = w, !.bulk = w,
                         !.p.y = @ + w,
                         !.p.u = @ + (w \div 2),
                         !.p.v = @ + (w \div 2),
                         !.dst = @ + sample_w * (IF ten THEN 16 ELSE 32)]
    IN  IF ten THEN pad_line(edge_10(tail_loop_10(m2)))
        ELSE pad_line(edge_8(tail_loop_8(m2)))

(* C23: whatever sample factors (at least 1) the installed packers have,   *)
(* the row split into sample_w*group_size bulk samples, scalar tail groups *)
(* and partial words is byte for byte the row of the split with factor 1;  *)
(* bulk and tail together take every full group of 6 samples.              *)
C23_FactorIndependent ==
    Returned =>
        /\ s.sample_factor_10 >= 1 /\ s.sample_factor_8 >= 1
        /\ \A r \in 1 .. Len(trace) :
              /\ trace[r].bulk % BulkGroup = 0
              /\ trace[r].bulk + 6 * trace[r].tail = 6 * (avctx.width \div 6)
              /\ FactorOneRow(r).buf
                    = SubSeq(pkt.data, trace[r].dst0 + 1, trace[r].dst1)

C23_Witness ==
    /\ Returned /\ pic.format = "YUV422P10"
    /\ s.sample_factor_10 = 2
    /\ avctx.width = 32
    /\ trace[1].bulk = 24 /\ trace[1].tail = 1
    /\ trace[1].edge1 /\ ~trace[1].edge2
    /\ FactorOneRow(1).bulk = 30 /\ FactorOneRow(1).tail = 0

----------------------------------------------------------------------------
(* C24: 4:2:2 input and the stride overhead of the source planes.          *)
(* samples per row of plane pl (1: Y, 2: U, 3: V) of the frame, overhead   *)
(* included                                                                *)
PlaneStride(pl) == pic.linesize[pl] \div SampleBytes(pic.format)

(* sample i (from 0) of row r of plane pl *)
PlaneAt(pl, r, i) == pic.data[pl][r * PlaneStride(pl) + i + 1]

(* the components of output row r taken from the first width luma samples *)
(* of luma row r and the first width/2 samples of rows r of U and V       *)
LogicalRow(r) ==
    [j \in 1 .. 2 * avctx.width |->
        RefValue(IF (j - 1) % 2 = 1 THEN PlaneAt(1, r, (j - 1) \div 2)
                 ELSE IF ((j - 1) \div 2) % 2 = 0
                      THEN PlaneAt(2, r, (j - 1) \div 4)
                      ELSE PlaneAt(3, r, (j - 1) \div 4))]

(* C24: for 4:2:2 input, 8-bit and 10-bit, and any plane row strides at   *)
(* least as long as the logical row, the iteration for row h starts at    *)
(* the first sample of row h of each plane and output row h is the        *)
(* packing of the first width luma samples and the first width/2 U and V  *)
(* samples of those rows: no sample of the stride overhead enters it.     *)
C24_LogicalSamplesOnly ==
    (Returned /\ pic.format \in {"YUV422P", "YUV422P10"}) =>
        /\ PlaneStride(1) >= avctx.width
        /\ PlaneStride(2) >= avctx.width \div 2
        /\ PlaneStride(3) >= avctx.width \div 2
        /\ \A r \in Rows :
              /\ trace[r + 1].y0 = r * PlaneStride(1)
              /\ trace[r + 1].u0 = r * PlaneStride(2)
              /\ trace[r + 1].v0 = r * PlaneStride(3)
              /\ SubSeq(pkt.data, r * LineBytes + 1, (r + 1) * LineBytes)
                    = LET packed == RefPack(LogicalRow(r))
                      IN  packed \o [i \in 1 .. LineBytes - Len(packed) |-> 0]

C24_Witness ==
    /\ Returned /\ pic.format = "YUV422P10"
    /\ avctx.width = 8 /\ avctx.height = 3
    /\ PlaneStride(1) = 10 /\ PlaneStride(2) = 5
    /\ trace[3].y0 = 20 /\ trace[3].u0 = 10
    /\ PlaneAt(1, 1, 8) # PlaneAt(1, 2, 0)

----------------------------------------------------------------------------
(* C25: the chroma rows 4:2:0 input is read from.                          *)
(* the chroma row the iteration for output row r (from 0) read from *)
ChromaRowRead(r) == trace[r + 1].u0 \div pic.linesize[2]

(* C25: for 4:2:0 input, progressive or interlaced, the chroma row read    *)
(* while packing any output row lies below the ceil(height/2) chroma rows  *)
(* of the source, and none of the width/2 samples read from U and from V   *)
(* lies past the end of its plane.                                         *)
C25_ChromaRowsInPlane ==
    (pic.format = "YUV420P" /\ (pc = "rows" \/ Returned)) =>
        \A r \in 0 .. Len(trace) - 1 :
            /\ ChromaRowRead(r) < (avctx.height + 1) \div 2
            /\ trace[r + 1].u0 + (avctx.width \div 2) <= Len(pic.data[2])
            /\ trace[r + 1].v0 + (avctx.width \div 2) <= Len(pic.data[3])

(* an interlaced frame of 4k+2 rows: its last row was packed from chroma   *)
(* row 2k+1, one past the 2k+1 rows the planes have                        *)
C25_ReadPastPlane ==
    /\ Returned /\ pic.format = "YUV420P" /\ pic.interlaced_frame = 1
    /\ avctx.height = 2 /\ avctx.width = 4
    /\ Len(pic.data[2]) = pic.linesize[2]
    /\ ChromaRowRead(0) = 0
    /\ ChromaRowRead(1) = 1
    /\ trace[2].u0 >= Len(pic.data[2])
    /\ trace[2].g = 1023
    /\ FieldOf(WordAt(1, 0), 0) = 1016


-----------------------------------------------------------------------------
(* The DeckLink output *)

(* a frame the card took: ScheduleVideoFrame succeeded for it *)
FrameTaken == dl.pc = "open" /\ dl.row_bytes # 0

(* frames scheduled and not yet completed *)
InFlight == dl.scheduled

(* no decklink_write_video_packet call holds a spot it has not yet used *)
BetweenCalls == dl.pc = "open" /\ dl.wpc # "schedule"

(* C26: for every frame width, the row byte count the DeckLink output      *)
(* reports for a V210 packet, ((width+47)/48)*128, equals the line stride  *)
(* ((width+47)/48)*48*8/3 the v210 encoder lays that packet out with       *)
C26_RowBytesIsStride ==
    (FrameTaken /\ dl.codec_id = "V210")
        => /\ dl.row_bytes = Stride(dl.bmd_width)
           /\ dl.row_bytes
                  = ((((dl.bmd_width + 47) \div 48) * 48) * 8) \div 3

C26_Witness ==
    /\ FrameTaken /\ dl.codec_id = "V210"
    /\ dl.bmd_width = 50 /\ dl.row_bytes = 256
    /\ InFlight > 0

(* C27: between calls, the free spots plus the frames in flight make up    *)
(* frames_buffer, so the free spots stay within 0 .. frames_buffer and at  *)
(* most frames_buffer frames are in flight, also after a call in which     *)
(* ScheduleVideoFrame failed                                               *)
C27_SpotsAccounted ==
    BetweenCalls
        => /\ dl.frames_buffer_available_spots + InFlight = dl.frames_buffer
           /\ dl.frames_buffer_available_spots >= 0
           /\ dl.frames_buffer_available_spots <= dl.frames_buffer
           /\ InFlight <= dl.frames_buffer

(* a call has returned EIO and its spot is neither free nor in flight *)
C27_SpotLeaked ==
    /\ dl.pc = "open" /\ dl.wpc = "idle" /\ dl.ret = -5
    /\ dl.frames_buffer > 0
    /\ dl.frames_buffer_available_spots + InFlight < dl.frames_buffer

(* C28: with the muxer thread and the card running on, a call that waits   *)
(* for a free spot eventually obtains one and returns, for every           *)
(* frames_buffer that decklink_setup_video computes, 0 included            *)
C28_WaitersProceed == (dl.wpc = "wait") ~> (dl.wpc = "idle")

(* a call waits while no spot is free and no frame is in flight: no        *)
(* callback will ever wake it                                              *)
C28_WaitsForever ==
    /\ dl.pc = "open" /\ dl.wpc = "wait"
    /\ dl.frames_buffer_available_spots = 0
    /\ InFlight = 0

(* the waits that do end: those with a spot free or a frame in flight *)
C28_WaitersWithFramesProceed ==
    (dl.wpc = "wait" /\ dl.frames_buffer_available_spots + InFlight > 0)
        ~> (dl.wpc = "idle")

====
